---- MODULE Spec2Model ----
(***************************************************************************)
(* Model of naoqi_dcm_driver's Robot class (src/src/robot.cpp): the        *)
(* connection lifecycle (connect, stopService, ~Robot), the control cycle  *)
(* (controllerLoop with readJoints, the controller update, writeJoints)    *)
(* and the velocity callback (commandVelocity).                            *)
(*                                                                         *)
(* Three threads of control act on one Robot object, none of them under a  *)
(* lock (the source takes none):                                           *)
(*   "svc"   the service calls registered with QI_REGISTER_OBJECT          *)
(*           (connect, stopService) and the destructor;                    *)
(*   "loop"  run() -> controllerLoop();                                    *)
(*   "cb"    the ROS callback commandVelocity.                             *)
(* Every backend call is one step, so calls of different threads           *)
(* interleave at the granularity of backend calls.                         *)
(*                                                                         *)
(* Angles are integers (a fixed-point reading of the float/double values); *)
(* the wrappers Motion, Memory, DCM, Diagnostics and the controller        *)
(* manager are outside src/: their results are nondeterministic choices.   *)
(***************************************************************************)
EXTENDS Integers, Sequences, FiniteSets, TLC

\* ------------------------------------------------------------- bounds
\* Angles and commands range over 0..MaxAngle.
MaxAngle == 1
\* The configured JointPrecision ranges over -1..MaxPrecision.
MaxPrecision == 1
\* Longest name list enumerated for ignoreMimicJoints taken on its own.
MaxNames == 3

Angles == 0..MaxAngle
Precisions == (-1)..MaxPrecision

\* joint_precision_(0.1) of the constructor, in the unit of the angles.
DefaultPrecision == 0

\* What the parameter server may hold: motor_groups as boost::split leaves
\* it (<<"">> for an empty or absent parameter).
GroupParams == {<<"">>, <<"Body">>, <<"Head">>}
BodyTypes == {"", "H21"}
Params(dcms, groups, bodies, precisions) ==
    [use_dcm : dcms, motor_groups : groups, BodyType : bodies,
     JointPrecision : precisions]

\* Joint names of a NAOqi robot.
Names == {"HeadYaw", "LHand", "RWristYaw", "WheelFL", "WheelB"}

\* A robot reporting a wheel and n arm and head joints.
PlainJoints == <<"HeadYaw", "HeadPitch", "LShoulderPitch", "LElbowYaw", "RElbowYaw">>
Robot(n) == <<"WheelFL">> \o SubSeq(PlainJoints, 1, n)

Threads == {"svc", "loop", "cb"}

\* ------------------------------------------------------------- helpers
Abs(x) == IF x < 0 THEN -x ELSE x

\* The sequences over S of length n, and of length at most n.
SeqN(S, n) == [1..n -> S]
SeqUpTo(S, n) == UNION {SeqN(S, k) : k \in 0..n}

\* s without its element at index i (std::vector::erase of one element).
Erase(s, i) == [k \in 1..(Len(s) - 1) |-> IF k < i THEN s[k] ELSE s[k + 1]]

\* n zeros: what std::vector<double>::resize(n) leaves in a fresh vector.
Zeros(n) == [k \in 1..n |-> 0]

\* std::vector<double>::resize(n): keeps the first n, pads with 0.
Resize(s, n) == [k \in 1..n |-> IF k <= Len(s) THEN s[k] ELSE 0]

\* ------------------------------------------------------------- state
VARIABLES
    is_connected_,      \* Robot::is_connected_
    use_dcm_,           \* Robot::use_dcm_
    motor_groups_,      \* Robot::motor_groups_
    body_type_,         \* Robot::body_type_
    joint_precision_,   \* Robot::joint_precision_
    motion_,            \* motion_ != nullptr
    dcm_,               \* dcm_ != nullptr
    manager_,           \* manager_ points to a constructed ControllerManager
    stiffness_,         \* stiffness_.data
    joint_angles_,
    joint_velocities_,
    joint_efforts_,
    joint_commands_,
    ros_ok,             \* ros::ok(): false once ros::shutdown() was called
    raw_names,          \* connect's joints_names as the backend returned it
    joints_names,       \* connect's joints_names (filtered at line 163)
    armStiffness,       \* backend: last arm stiffness set through ALMotion
    connect_ret,        \* what the last connect() returned
    loop_exit,          \* how the last controllerLoop() ended
    pc,                 \* each thread's position
    ret,                \* where a thread continues after stopService
    log,                \* each thread's backend calls of the operation it is in
    joint_positions,    \* readJoints' joint_positions (the last batched read)
    stopSnap,           \* the object's state when stopService last completed
    param_server,       \* environment: the node's ROS parameters
    body_names          \* environment: the joint names the robot reports

vars == <<is_connected_, use_dcm_, motor_groups_, body_type_, joint_precision_,
          motion_, dcm_, manager_, stiffness_, joint_angles_, joint_velocities_,
          joint_efforts_, joint_commands_, ros_ok, raw_names, joints_names,
          armStiffness, connect_ret, loop_exit, pc, ret,
          log, joint_positions, stopSnap, param_server, body_names>>

cfgVars == <<use_dcm_, motor_groups_, body_type_, joint_precision_>>
envVars == <<param_server, body_names>>
bufVars == <<joint_angles_, joint_velocities_, joint_efforts_, joint_commands_>>
nameVars == <<raw_names, joints_names>>

\* The object's own fields, as stopService's caller can observe them.
ObjState == <<is_connected_, stiffness_, ros_ok, motion_, dcm_, manager_,
              use_dcm_, motor_groups_, body_type_, joint_precision_,
              joint_angles_, joint_velocities_, joint_efforts_, joint_commands_>>

NoSnap == <<"none">>

Goto(t, p) == pc' = [pc EXCEPT ![t] = p]
Emit(t, e) == log' = [log EXCEPT ![t] = Append(@, e)]

\* The process is gone once a thread went through a pointer that was never
\* set (manager_ before line 194) or through an invalidated iterator.
Crashed == \E t \in Threads : pc[t] = "crashed"
\* The object is gone once its destructor returned.
Destroyed == pc["svc"] = "destroyed"
Alive == ~Crashed /\ ~Destroyed

\* ------------------------------------------------------------- Robot::Robot
\* The state Robot::Robot leaves (lines 30-45), in an environment whose
\* parameter server holds params and whose robot reports names.
Constructed(params, names) ==
    /\ is_connected_ = FALSE
    /\ use_dcm_ = FALSE
    /\ motor_groups_ = <<>>
    /\ body_type_ = ""
    /\ joint_precision_ = DefaultPrecision
    /\ motion_ = FALSE
    /\ dcm_ = FALSE
    /\ manager_ = FALSE
    /\ stiffness_ = 0
    /\ joint_angles_ = <<>>
    /\ joint_velocities_ = <<>>
    /\ joint_efforts_ = <<>>
    /\ joint_commands_ = <<>>
    /\ ros_ok = TRUE
    /\ raw_names = <<>>
    /\ joints_names = <<>>
    /\ armStiffness = 0
    /\ connect_ret = "none"
    /\ loop_exit = "none"
    /\ pc = [t \in Threads |-> "idle"]
    /\ ret = [t \in Threads |-> "idle"]
    /\ log = [t \in Threads |-> <<>>]
    /\ joint_positions = <<>>
    /\ stopSnap = NoSnap
    /\ param_server \in params
    /\ body_names \in names

\* ------------------------------------------------------------- pure parts

\* it->find("Wheel") != npos, over the names a NAOqi robot reports.
WheelNames == {"WheelFL", "WheelFR", "WheelB"}
ContainsWheel(name) == name \in WheelNames

\* The condition of line 423-424: && binds tighter than ||.
IsMimic(name, body) ==
    \/ ContainsWheel(name)
    \/ (name \in {"RHand", "LHand", "RWristYaw", "LWristYaw"} /\ body = "H21")

\* Robot::ignoreMimicJoints, as its loop runs: `it` is the iterator's index
\* (1 = begin, Len + 1 = end).  After erase(it) the source goes on with the
\* erased position's iterator: it-- (which is begin - 1 when the first
\* element was erased), then the loop's ++it.  With std::vector's
\* pointer iterators that lands on the element that followed the erased one.
RECURSIVE IgnoreFrom(_, _, _)
IgnoreFrom(joints, it, body) ==
    IF it = Len(joints) + 1 THEN joints
    ELSE IF IsMimic(joints[it], body)
         THEN LET erased == Erase(joints, it)
                  back == it - 1
              IN IgnoreFrom(erased, back + 1, body)
         ELSE IgnoreFrom(joints, it + 1, body)

IgnoreMimicJoints(joints, body) == IgnoreFrom(joints, 1, body)

\* writeJoints comparing with >= in place of >.
RECURSIVE ChangedFrom_AtLeast(_, _, _, _)
ChangedFrom_AtLeast(commands, angles, precision, i) ==
    IF i > Len(commands) THEN FALSE
    ELSE IF Abs(commands[i] - angles[i]) >= precision THEN TRUE
    ELSE ChangedFrom_AtLeast(commands, angles, precision, i + 1)

\* The first loop of Robot::writeJoints: `changed` after it.
RECURSIVE ChangedFrom(_, _, _, _)
ChangedFrom(commands, angles, precision, i) ==
    IF i > Len(commands) THEN FALSE
    ELSE IF Abs(commands[i] - angles[i]) > precision THEN TRUE
    ELSE ChangedFrom(commands, angles, precision, i + 1)

Changed(commands, angles, precision) == ChangedFrom(commands, angles, precision, 1)

\* Robot::loadParams, motor groups: `tokens` is what boost::split makes of
\* the parameter (<<"">> for an empty or absent parameter).
LoadMotorGroups(tokens) ==
    LET cleared == IF Len(tokens) = 1 /\ tokens[1] = "" THEN <<>> ELSE tokens
    IN IF Len(cleared) = 0 THEN <<"LArm", "RArm">> ELSE cleared

\* Whether a stiffness request for these groups reaches the arms: the groups
\* of lines 255-256 are the arms, "Body" (line 64) is the whole body.
CoversArms(groups) ==
    \E i \in 1..Len(groups) : groups[i] \in {"Body", "LArm", "RArm"}


\* ------------------------------------------------------------- setStiffness
\* Robot::setStiffness(level); ok is stiffnessInterpolation's result.
SetStiffness(level, ok) ==
    /\ stiffness_' = level
    /\ armStiffness' = IF ok /\ CoversArms(motor_groups_) THEN level ELSE armStiffness

\* ------------------------------------------------------------- stopService
\* Run by thread t: "svc" (service call, connect's wake failure, destructor)
\* or "loop" (diagnostics not ok).

\* lines 55-60
StopArms(t) ==
    /\ pc[t] = "s_arms"
    /\ IF motion_
       THEN /\ IF use_dcm_
               THEN armStiffness' = 0 /\ Emit(t, "arms0")
               ELSE UNCHANGED <<armStiffness, log>>
            /\ Goto(t, "s_rest")
       ELSE /\ UNCHANGED <<armStiffness, log>>
            /\ Goto(t, "s_flag")
    /\ UNCHANGED <<envVars, is_connected_, cfgVars, motion_, dcm_, manager_, stiffness_, bufVars,
                   ros_ok, nameVars, connect_ret, loop_exit, ret,
                   joint_positions, stopSnap>>

\* stopService sending the robot to rest whatever the groups are.
StopRest_Always(t) ==
    /\ pc[t] = "s_rest"
    /\ Emit(t, "rest")
    /\ Goto(t, "s_stiff")
    /\ UNCHANGED <<envVars, is_connected_, cfgVars, motion_, dcm_, manager_, stiffness_, bufVars,
                   ros_ok, nameVars, armStiffness, connect_ret,
                   loop_exit, ret, joint_positions, stopSnap>>

\* lines 62-65
StopRest(t) ==
    /\ pc[t] = "s_rest"
    /\ IF Len(motor_groups_) = 1 /\ motor_groups_[1] = "Body"
       THEN Emit(t, "rest")
       ELSE UNCHANGED log
    /\ Goto(t, "s_stiff")
    /\ UNCHANGED <<envVars, is_connected_, cfgVars, motion_, dcm_, manager_, stiffness_, bufVars,
                   ros_ok, nameVars, armStiffness, connect_ret,
                   loop_exit, ret, joint_positions, stopSnap>>

\* lines 67-68
StopStiffness(t) ==
    /\ pc[t] = "s_stiff"
    /\ \E ok \in BOOLEAN : SetStiffness(0, ok)
    /\ Emit(t, "stiff0")
    /\ Goto(t, "s_flag")
    /\ UNCHANGED <<envVars, is_connected_, cfgVars, motion_, dcm_, manager_, bufVars,
                   ros_ok, nameVars, connect_ret,
                   loop_exit, ret, joint_positions, stopSnap>>

\* stopService without line 71.
StopFlag_FlagKept(t) ==
    /\ pc[t] = "s_flag"
    /\ Goto(t, "s_shut")
    /\ UNCHANGED <<envVars, is_connected_, cfgVars, motion_, dcm_, manager_, stiffness_,
                   bufVars, ros_ok, nameVars, armStiffness, connect_ret,
                   loop_exit, ret, log, joint_positions, stopSnap>>

\* line 71
StopFlag(t) ==
    /\ pc[t] = "s_flag"
    /\ is_connected_' = FALSE
    /\ Goto(t, "s_shut")
    /\ UNCHANGED <<envVars, cfgVars, motion_, dcm_, manager_, stiffness_, bufVars,
                   ros_ok, nameVars, armStiffness, connect_ret,
                   loop_exit, ret, log, joint_positions, stopSnap>>

\* lines 73-77 and the return; connect's caller (line 154-155) returns false.
StopShutdown(t) ==
    /\ pc[t] = "s_shut"
    /\ ros_ok' = FALSE
    /\ Goto(t, IF ret[t] = "c_fail" THEN "idle" ELSE ret[t])
    /\ connect_ret' = IF ret[t] = "c_fail" THEN "false" ELSE connect_ret
    /\ log' = IF t = "svc" THEN [log EXCEPT ![t] = <<>>] ELSE log
    /\ UNCHANGED <<envVars, is_connected_, cfgVars, motion_, dcm_, manager_, stiffness_, bufVars,
                   nameVars, armStiffness,
                   loop_exit, ret, joint_positions>>
    /\ stopSnap' = ObjState'

\* A call of stopService through the service interface.
StopServiceCall ==
    /\ Alive
    /\ pc["svc"] = "idle"
    /\ Goto("svc", "s_arms")
    /\ ret' = [ret EXCEPT !["svc"] = "idle"]
    /\ log' = [log EXCEPT !["svc"] = <<>>]
    /\ UNCHANGED <<envVars, is_connected_, cfgVars, motion_, dcm_, manager_, stiffness_, bufVars,
                   ros_ok, nameVars, armStiffness, connect_ret,
                   loop_exit, joint_positions, stopSnap>>

\* Robot::~Robot: the other threads have left the object.
Destructor ==
    /\ Alive
    /\ \A t \in Threads : pc[t] = "idle"
    /\ Goto("svc", "s_arms")
    /\ ret' = [ret EXCEPT !["svc"] = "destroyed"]
    /\ log' = [log EXCEPT !["svc"] = <<>>]
    /\ UNCHANGED <<envVars, is_connected_, cfgVars, motion_, dcm_, manager_, stiffness_, bufVars,
                   ros_ok, nameVars, armStiffness, connect_ret,
                   loop_exit, joint_positions, stopSnap>>

StopService(t) ==
    /\ ~Crashed
    /\ \/ StopArms(t)
       \/ StopRest(t)
       \/ StopStiffness(t)
       \/ StopFlag(t)
       \/ StopShutdown(t)

\* ------------------------------------------------------------- connect
\* lines 124-150: the flag is cleared, the parameters are loaded (any value
\* the parameter server may hold), the wrappers are created, wakeUp is sent.
ConnectStart ==
    /\ Alive
    /\ pc["svc"] = "idle"
    /\ is_connected_' = FALSE
    /\ use_dcm_' = param_server.use_dcm
    /\ motor_groups_' = LoadMotorGroups(param_server.motor_groups)
    /\ body_type_' = param_server.BodyType
    /\ joint_precision_' = param_server.JointPrecision
    /\ dcm_' = (dcm_ \/ use_dcm_')
    /\ log' = [log EXCEPT !["svc"] =
                  IF \/ (Len(motor_groups_') = 1 /\ motor_groups_'[1] = "Body")
                     \/ (Len(motor_groups_') # 1 /\ ~use_dcm_')
                  THEN <<"wakeUp">> ELSE <<>>]
    /\ motion_' = TRUE
    /\ connect_ret' = "none"
    /\ Goto("svc", "c_wake")
    /\ stopSnap' = NoSnap
    /\ UNCHANGED <<envVars, manager_, stiffness_, bufVars, ros_ok, raw_names, joints_names,
                   armStiffness, loop_exit, ret, joint_positions>>

\* lines 151-156: robotIsWakeUp; when it fails stopService runs and connect
\* returns false.
ConnectWake ==
    /\ pc["svc"] = "c_wake"
    /\ \E awake \in BOOLEAN :
          IF awake
          THEN /\ Emit("svc", "awake")
               /\ Goto("svc", "c_names")
               /\ UNCHANGED ret
          ELSE /\ Emit("svc", "not_awake")
               /\ Goto("svc", "s_arms")
               /\ ret' = [ret EXCEPT !["svc"] = "c_fail"]
    /\ stopSnap' = NoSnap
    /\ UNCHANGED <<envVars, is_connected_, cfgVars, motion_, dcm_, manager_, stiffness_, bufVars,
                   ros_ok, nameVars, armStiffness, connect_ret,
                   loop_exit, joint_positions>>

\* lines 158-162: the joint names of the configured groups.
ConnectNames ==
    /\ pc["svc"] = "c_names"
    /\ raw_names' = body_names
    /\ joints_names' = body_names
    /\ Emit("svc", "names")
    /\ Goto("svc", "c_filter")
    /\ stopSnap' = NoSnap
    /\ UNCHANGED <<envVars, is_connected_, cfgVars, motion_, dcm_, manager_, stiffness_, bufVars,
                   ros_ok, armStiffness, connect_ret,
                   loop_exit, ret, joint_positions>>

\* line 163.  Going on with `it` after erase(it), and stepping it below
\* begin(), is undefined: a build with checked iterators aborts there, any
\* other build computes IgnoreMimicJoints.
ConnectFilter ==
    /\ pc["svc"] = "c_filter"
    /\ \E checked \in BOOLEAN :
          IF checked /\ IgnoreMimicJoints(joints_names, body_type_) # joints_names
          THEN /\ Goto("svc", "crashed")
               /\ UNCHANGED <<joints_names, log>>
          ELSE /\ joints_names' = IgnoreMimicJoints(joints_names, body_type_)
               /\ Emit("svc", "filtered")
               /\ Goto("svc", "c_init")
    /\ stopSnap' = NoSnap
    /\ UNCHANGED <<envVars, is_connected_, cfgVars, motion_, dcm_, manager_, stiffness_, bufVars,
                   ros_ok, raw_names, armStiffness, connect_ret,
                   loop_exit, ret, joint_positions>>

\* lines 166-170: init(joints_names) on the wrappers.
ConnectInit ==
    /\ pc["svc"] = "c_init"
    /\ log' = [log EXCEPT !["svc"] =
                  @ \o <<"init_memory", "init_motion">>
                    \o (IF use_dcm_ THEN <<"init_dcm">> ELSE <<>>)]
    /\ raw_names' = <<>>
    /\ Goto("svc", "c_flag")
    /\ stopSnap' = NoSnap
    /\ UNCHANGED <<envVars, is_connected_, cfgVars, motion_, dcm_, manager_, stiffness_, bufVars,
                   ros_ok, joints_names, armStiffness,
                   connect_ret, loop_exit, ret, joint_positions>>

\* lines 172-182: the topic message and the diagnostics are set up, then the
\* flag is set.
ConnectFlag ==
    /\ pc["svc"] = "c_flag"
    /\ is_connected_' = TRUE
    /\ Emit("svc", "connected")
    /\ Goto("svc", "c_sub")
    /\ stopSnap' = NoSnap
    /\ UNCHANGED <<envVars, cfgVars, motion_, dcm_, manager_, stiffness_, bufVars,
                   ros_ok, nameVars, armStiffness,
                   connect_ret, loop_exit, ret, joint_positions>>

\* line 185, Robot::subscribe (lines 209-221)
ConnectSubscribe ==
    /\ pc["svc"] = "c_sub"
    /\ stiffness_' = 1
    /\ Emit("svc", "topics")
    /\ Goto("svc", "c_stiff")
    /\ stopSnap' = NoSnap
    /\ UNCHANGED <<envVars, is_connected_, cfgVars, motion_, dcm_, manager_, bufVars,
                   ros_ok, nameVars, armStiffness,
                   connect_ret, loop_exit, ret, joint_positions>>

\* lines 187-189
ConnectStiffness ==
    /\ pc["svc"] = "c_stiff"
    /\ \E ok \in BOOLEAN :
          /\ SetStiffness(1, ok)
          /\ IF ok
             THEN /\ Emit("svc", "stiff1_ok")
                  /\ Goto("svc", "c_mgr")
                  /\ UNCHANGED connect_ret
             ELSE /\ log' = [log EXCEPT !["svc"] = <<>>]
                  /\ Goto("svc", "idle")
                  /\ connect_ret' = "false"
    /\ stopSnap' = NoSnap
    /\ UNCHANGED <<envVars, is_connected_, cfgVars, motion_, dcm_, manager_, bufVars,
                   ros_ok, nameVars, loop_exit, ret, joint_positions>>

\* lines 191-200
ConnectManager ==
    /\ pc["svc"] = "c_mgr"
    /\ \E ok \in BOOLEAN :
          IF ok
          THEN /\ manager_' = TRUE
               /\ Emit("svc", "manager")
               /\ Goto("svc", "c_ctrl")
               /\ UNCHANGED connect_ret
          ELSE /\ log' = [log EXCEPT !["svc"] = <<>>]
               /\ Goto("svc", "idle")
               /\ connect_ret' = "false"
               /\ UNCHANGED manager_
    /\ stopSnap' = NoSnap
    /\ UNCHANGED <<envVars, is_connected_, cfgVars, motion_, dcm_, stiffness_, bufVars,
                   ros_ok, nameVars, armStiffness, loop_exit, ret,
                   joint_positions>>

\* initializeControllers reserving, but not resizing, the command buffer.
InitializeControllers_CommandsNotResized(names, ok) ==
    /\ joint_angles_' = Resize(joint_angles_, Len(names))
    /\ joint_velocities_' = Resize(joint_velocities_, Len(names))
    /\ joint_efforts_' = Resize(joint_efforts_, Len(names))
    /\ joint_commands_' = joint_commands_
    /\ connect_ret' = IF ok THEN "true" ELSE "false"

\* Robot::initializeControllers(joints_names): the four resizes, then the
\* registrations, which may fail.
InitializeControllers(names, ok) ==
    /\ joint_angles_' = Resize(joint_angles_, Len(names))
    /\ joint_velocities_' = Resize(joint_velocities_, Len(names))
    /\ joint_efforts_' = Resize(joint_efforts_, Len(names))
    /\ joint_commands_' = Resize(joint_commands_, Len(names))
    /\ connect_ret' = IF ok THEN "true" ELSE "false"

\* lines 202-206
ConnectControllers ==
    /\ pc["svc"] = "c_ctrl"
    /\ \E ok \in BOOLEAN :
          /\ InitializeControllers(joints_names, ok)
    /\ log' = [log EXCEPT !["svc"] = <<>>]
    /\ Goto("svc", "idle")
    /\ stopSnap' = NoSnap
    /\ UNCHANGED <<envVars, is_connected_, cfgVars, motion_, dcm_, manager_, stiffness_,
                   ros_ok, nameVars, armStiffness, loop_exit, ret,
                   joint_positions>>

Connect ==
    /\ ~Crashed
    /\ \/ ConnectStart
       \/ ConnectWake
       \/ ConnectNames
       \/ ConnectFilter
       \/ ConnectInit
       \/ ConnectFlag
       \/ ConnectSubscribe
       \/ ConnectStiffness
       \/ ConnectManager
       \/ ConnectControllers

\* ------------------------------------------------------------- controllerLoop
\* Robot::run
Run ==
    /\ Alive
    /\ pc["loop"] = "idle"
    /\ Goto("loop", "l_check")
    /\ log' = [log EXCEPT !["loop"] = <<>>]
    /\ loop_exit' = "none"
    /\ stopSnap' = NoSnap
    /\ UNCHANGED <<envVars, is_connected_, cfgVars, motion_, dcm_, manager_, stiffness_, bufVars,
                   ros_ok, nameVars, armStiffness, connect_ret, ret,
                   joint_positions>>

\* controllerLoop without the connection check of lines 272-273.
LoopCheck_NoConnectionCheck ==
    /\ pc["loop"] = "l_check"
    /\ IF ~ros_ok
       THEN /\ Goto("loop", "idle")
            /\ loop_exit' = "shutdown"
            /\ UNCHANGED log
       ELSE /\ Goto("loop", "l_read")
            /\ Emit("loop", IF stiffness_ = 1 THEN "publish_1" ELSE "publish_0")
            /\ UNCHANGED loop_exit
    /\ stopSnap' = NoSnap
    /\ UNCHANGED <<envVars, is_connected_, cfgVars, motion_, dcm_, manager_, stiffness_,
                   bufVars, ros_ok, nameVars, armStiffness, connect_ret, ret,
                   joint_positions>>

\* lines 268-277: the loop condition, the connection check, the stiffness
\* publication.
LoopCheck ==
    /\ pc["loop"] = "l_check"
    /\ IF ~ros_ok
       THEN /\ Goto("loop", "idle")
            /\ loop_exit' = "shutdown"
            /\ UNCHANGED log
       ELSE IF ~is_connected_
       THEN /\ Goto("loop", "idle")
            /\ loop_exit' = "break"
            /\ UNCHANGED log
       ELSE /\ Goto("loop", "l_read")
            /\ Emit("loop", IF stiffness_ = 1 THEN "publish_1" ELSE "publish_0")
            /\ UNCHANGED loop_exit
    /\ stopSnap' = NoSnap
    /\ UNCHANGED <<envVars, is_connected_, cfgVars, motion_, dcm_, manager_, stiffness_, bufVars,
                   ros_ok, nameVars, armStiffness, connect_ret, ret,
                   joint_positions>>

\* Robot::readJoints: sensor is what memory_->getListData() returned.  The
\* loop runs over joint_commands_; where it runs past the end of the sensor
\* values it reads whatever the memory behind them holds (garbage).
ReadJoints(sensor, garbage) ==
    LET value(i) == IF i <= Len(sensor) THEN sensor[i] ELSE garbage[i]
    IN /\ joint_positions' = sensor
       /\ joint_angles_' = [i \in 1..Len(joint_angles_) |->
                               IF i <= Len(joint_commands_) THEN value(i)
                               ELSE joint_angles_[i]]
       /\ joint_commands_' = [i \in 1..Len(joint_commands_) |-> value(i)]

\* The lengths memory_->getListData() may return for n controlled joints.
SensorLengths(n) == {k \in {n - 1, n, n + 1} : k >= 0}

\* line 279
LoopRead ==
    /\ pc["loop"] = "l_read"
    /\ \E k \in SensorLengths(Len(joint_commands_)) :
       \E sensor \in SeqN(Angles, k) :
       \E garbage \in SeqN(Angles, Len(joint_commands_)) :
          /\ \A i \in 1..Len(garbage) : i <= k => garbage[i] = 0
          /\ ReadJoints(sensor, garbage)
    /\ Emit("loop", "read")
    /\ Goto("loop", "l_diag")
    /\ stopSnap' = NoSnap
    /\ UNCHANGED <<envVars, is_connected_, cfgVars, motion_, dcm_, manager_, stiffness_,
                   joint_velocities_, joint_efforts_, ros_ok, nameVars, armStiffness,
                   connect_ret, loop_exit, ret>>

\* controllerLoop going from the diagnostics straight to writeJoints.
LoopDiagnostics_UpdateSkipped ==
    /\ pc["loop"] = "l_diag"
    /\ \E ok \in BOOLEAN :
          IF ok
          THEN /\ Goto("loop", "l_write")
               /\ UNCHANGED <<ret, log>>
          ELSE /\ Goto("loop", "s_arms")
               /\ Emit("loop", "diag_not_ok")
               /\ ret' = [ret EXCEPT !["loop"] = "l_update"]
    /\ joint_positions' = <<>>
    /\ stopSnap' = NoSnap
    /\ UNCHANGED <<envVars, is_connected_, cfgVars, motion_, dcm_, manager_, stiffness_,
                   bufVars, ros_ok, nameVars, armStiffness, connect_ret, loop_exit>>

\* lines 281-282: on a not-ok report stopService runs, then the iteration
\* goes on at line 284.
LoopDiagnostics ==
    /\ pc["loop"] = "l_diag"
    /\ \E ok \in BOOLEAN :
          IF ok
          THEN /\ Goto("loop", "l_update")
               /\ UNCHANGED <<ret, log>>
          ELSE /\ Goto("loop", "s_arms")
               /\ Emit("loop", "diag_not_ok")
               /\ ret' = [ret EXCEPT !["loop"] = "l_update"]
    /\ joint_positions' = <<>>
    /\ stopSnap' = NoSnap
    /\ UNCHANGED <<envVars, is_connected_, cfgVars, motion_, dcm_, manager_, stiffness_, bufVars,
                   ros_ok, nameVars, armStiffness, connect_ret,
                   loop_exit>>

\* controllerLoop whose catch block logs the failure and goes on.
LoopUpdate_FailureSwallowed ==
    /\ pc["loop"] = "l_update"
    /\ IF ~manager_
       THEN /\ Goto("loop", "crashed")
            /\ UNCHANGED <<joint_commands_, loop_exit, log>>
       ELSE \E throws \in BOOLEAN :
               IF throws
               THEN /\ Goto("loop", "l_write")
                    /\ loop_exit' = "update_failed"
                    /\ Emit("loop", "update")
                    /\ UNCHANGED joint_commands_
               ELSE /\ joint_commands_' \in SeqN(Angles, Len(joint_commands_))
                    /\ Emit("loop", "update")
                    /\ Goto("loop", "l_write")
                    /\ UNCHANGED loop_exit
    /\ stopSnap' = NoSnap
    /\ UNCHANGED <<envVars, is_connected_, cfgVars, motion_, dcm_, manager_, stiffness_,
                   joint_angles_, joint_velocities_, joint_efforts_,
                   ros_ok, nameVars, armStiffness, connect_ret,
                   ret, joint_positions>>

\* lines 284-292: manager_->update.  manager_ is set nowhere before line 194:
\* without it the call goes through an indeterminate pointer and the process
\* ends.  The controllers may leave any command in the command buffer.
LoopUpdate ==
    /\ pc["loop"] = "l_update"
    /\ IF ~manager_
       THEN /\ Goto("loop", "crashed")
            /\ UNCHANGED <<joint_commands_, loop_exit, log>>
       ELSE \E throws \in BOOLEAN :
               IF throws
               THEN /\ Goto("loop", "idle")
                    /\ loop_exit' = "update_failed"
                    /\ log' = [log EXCEPT !["loop"] = <<>>]
                    /\ UNCHANGED joint_commands_
               ELSE /\ joint_commands_' \in SeqN(Angles, Len(joint_commands_))
                    /\ Emit("loop", "update")
                    /\ Goto("loop", "l_write")
                    /\ UNCHANGED loop_exit
    /\ stopSnap' = NoSnap
    /\ UNCHANGED <<envVars, is_connected_, cfgVars, motion_, dcm_, manager_, stiffness_,
                   joint_angles_, joint_velocities_, joint_efforts_,
                   ros_ok, nameVars, armStiffness, connect_ret,
                   ret, joint_positions>>

\* writeJoints always going through ALMotion.
WriteJoints_MotionOnly ==
    IF ~Changed(joint_commands_, joint_angles_, joint_precision_) THEN "none"
    ELSE "motion_write"

\* Robot::writeJoints: the backend call it makes, "none" when it returns at
\* line 410.
WriteJoints ==
    IF ~Changed(joint_commands_, joint_angles_, joint_precision_) THEN "none"
    ELSE IF use_dcm_ THEN "dcm_write"
    ELSE "motion_write"

\* line 294
LoopWrite ==
    /\ pc["loop"] = "l_write"
    /\ IF WriteJoints = "none" THEN UNCHANGED log ELSE Emit("loop", WriteJoints)
    /\ Goto("loop", "l_pub")
    /\ stopSnap' = NoSnap
    /\ UNCHANGED <<envVars, is_connected_, cfgVars, motion_, dcm_, manager_, stiffness_, bufVars,
                   ros_ok, nameVars, armStiffness, connect_ret,
                   loop_exit, ret, joint_positions>>

\* line 296, Robot::publishJointStateFromAlMotion
LoopPublish ==
    /\ pc["loop"] = "l_pub"
    /\ Emit("loop", "getAngles")
    /\ Goto("loop", "l_sleep")
    /\ stopSnap' = NoSnap
    /\ UNCHANGED <<envVars, is_connected_, cfgVars, motion_, dcm_, manager_, stiffness_, bufVars,
                   ros_ok, nameVars, armStiffness, connect_ret,
                   loop_exit, ret, joint_positions>>

\* line 298: rate.sleep(); the next iteration's calls are logged afresh,
\* after the mark of the iteration that went before.
LoopSleep ==
    /\ pc["loop"] = "l_sleep"
    /\ log' = [log EXCEPT !["loop"] = <<"sleep">>]
    /\ Goto("loop", "l_check")
    /\ stopSnap' = NoSnap
    /\ UNCHANGED <<envVars, is_connected_, cfgVars, motion_, dcm_, manager_, stiffness_, bufVars,
                   ros_ok, nameVars, armStiffness, connect_ret,
                   loop_exit, ret, joint_positions>>

ControllerLoop ==
    /\ ~Crashed
    /\ \/ Run
       \/ LoopCheck
       \/ LoopRead
       \/ LoopDiagnostics
       \/ LoopUpdate
       \/ LoopWrite
       \/ LoopPublish
       \/ LoopSleep

\* ------------------------------------------------------------- commandVelocity
\* lines 310-312.  The handler dereferences motion_: it runs once connect
\* has created the wrapper.  ROS hands no message to a callback after
\* ros::shutdown() (line 76).
CommandVelocityStart ==
    /\ Alive
    /\ ros_ok
    /\ pc["cb"] = "idle"
    /\ motion_
    /\ IF use_dcm_
       THEN /\ armStiffness' = 0
            /\ log' = [log EXCEPT !["cb"] = <<"arms0">>]
       ELSE /\ log' = [log EXCEPT !["cb"] = <<>>]
            /\ UNCHANGED armStiffness
    /\ Goto("cb", "cb_move")
    /\ stopSnap' = NoSnap
    /\ UNCHANGED <<envVars, is_connected_, cfgVars, motion_, dcm_, manager_, stiffness_, bufVars,
                   ros_ok, nameVars, connect_ret,
                   loop_exit, ret, joint_positions>>

\* lines 314-315
CommandVelocityMove ==
    /\ pc["cb"] = "cb_move"
    /\ Emit("cb", "moveTo")
    /\ Goto("cb", "cb_raise")
    /\ stopSnap' = NoSnap
    /\ UNCHANGED <<envVars, is_connected_, cfgVars, motion_, dcm_, manager_, stiffness_, bufVars,
                   ros_ok, nameVars, armStiffness, connect_ret,
                   loop_exit, ret, joint_positions>>

\* lines 317-319
CommandVelocityRaise ==
    /\ pc["cb"] = "cb_raise"
    /\ armStiffness' = IF use_dcm_ THEN 1 ELSE armStiffness
    /\ log' = [log EXCEPT !["cb"] = <<>>]
    /\ Goto("cb", "idle")
    /\ stopSnap' = NoSnap
    /\ UNCHANGED <<envVars, is_connected_, cfgVars, motion_, dcm_, manager_, stiffness_, bufVars,
                   ros_ok, nameVars, connect_ret,
                   loop_exit, ret, joint_positions>>

CommandVelocity ==
    /\ ~Crashed
    /\ \/ CommandVelocityStart
       \/ CommandVelocityMove
       \/ CommandVelocityRaise

\* ------------------------------------------------------------- specifications
\* The three threads, freely interleaved, on a robot with at most one
\* controlled joint.
Init ==
    Constructed(Params(BOOLEAN, GroupParams, {""}, {DefaultPrecision}),
                {<<"WheelFL">>, <<"WheelFL", "HeadYaw">>})

Next ==
    \/ Connect
    \/ StopServiceCall
    \/ Destructor
    \/ StopService("svc")
    \/ StopService("loop")
    \/ ControllerLoop
    \/ CommandVelocity

Spec == Init /\ [][Next]_vars

\* The driver used from one thread at a time (connect, then run, then
\* stopService), for every precision and body type and robots of zero, one
\* and two controlled joints.
Idle(t) == pc[t] = "idle"

InitSeq ==
    Constructed(Params(BOOLEAN, {<<"">>, <<"Body">>}, BodyTypes, Precisions),
                {Robot(0), Robot(1), Robot(2), <<"LHand", "WheelFL", "HeadYaw">>})

NextSeq ==
    \/ Idle("loop") /\ Connect
    \/ Idle("loop") /\ StopServiceCall
    \/ Idle("loop") /\ Destructor
    \/ Idle("loop") /\ StopService("svc")
    \/ Idle("svc") /\ ControllerLoop
    \/ Idle("svc") /\ StopService("loop")

SpecSeq == InitSeq /\ [][NextSeq]_vars

\* The same, with the thread that is inside controllerLoop always going on to
\* its next statement.
LoopSteps ==
    /\ Idle("svc")
    /\ pc["loop"] # "idle"
    /\ (ControllerLoop \/ StopService("loop"))

SpecSeqFair == SpecSeq /\ WF_vars(LoopSteps)

\* connect on its own, for every list of up to MaxNames names the robot may
\* report and both body types.
InitFilter ==
    Constructed(Params({FALSE}, {<<"">>}, BodyTypes, {DefaultPrecision}),
                SeqUpTo(Names, MaxNames))

NextFilter ==
    \/ Connect
    \/ StopService("svc")

SpecFilter == InitFilter /\ [][NextFilter]_vars

\* ------------------------------------------------------------- properties
Range(s) == {s[i] : i \in 1..Len(s)}

\* The index of event e in sequence s, 0 when it is not there.
Pos(s, e) == IF e \in Range(s) THEN CHOOSE i \in 1..Len(s) : s[i] = e ELSE 0

IsJointIO(e) == e \in {"read", "update", "dcm_write", "motion_write"}
\* The joint reads, updates and writes of the loop's current iteration.
CycleIO == SelectSeq(log["loop"], IsJointIO)

BufferLengths == <<Len(joint_angles_), Len(joint_velocities_),
                   Len(joint_efforts_), Len(joint_commands_)>>

\* C1: whenever connect() has returned failure (robot not awake, stiffness
\* raise rejected, controller manager not constructed, registration failed)
\* the connection state is Disconnected: isConnected() is false.
C1_FailedConnectIsDisconnected ==
    (pc["svc"] = "idle" /\ connect_ret = "false") => ~is_connected_

\* C2: an iteration of controllerLoop that finds the state Disconnected does
\* no backend read, no backend write and no controller update, and the loop
\* returns to its caller.
C2_DisconnectedIterationReturns ==
    [][(pc["loop"] = "l_check" /\ ~is_connected_ /\ pc'["loop"] # "l_check")
        => /\ pc'["loop"] = "idle"
           /\ loop_exit' \in {"break", "shutdown"}
           /\ log'["loop"] = log["loop"]
           /\ log["loop"] \in {<<>>, <<"sleep">>}
           /\ UNCHANGED bufVars]_vars

\* C2's case: the loop has left through the connection check (ROS still up)
\* in the iteration after a complete one.
C2_Witness ==
    /\ pc["loop"] = "idle"
    /\ loop_exit = "break"
    /\ log["loop"] = <<"sleep">>
    /\ ros_ok

\* C3: whenever a call of stopService returns, the state is Disconnected with
\* requested stiffness 0, and when it is the second of two calls in a row the
\* object is in the state the first call left.
C3_StopServiceIdempotent ==
    [][(pc["svc"] = "s_shut" /\ pc'["svc"] # "s_shut")
        => /\ ~is_connected_'
           /\ stiffness_' = 0
           /\ stopSnap # NoSnap => ObjState' = stopSnap]_vars

\* C3's case: a second stopService in a row, on an object that was
\* connected, is about to return.
C3_Witness ==
    /\ pc["svc"] = "s_shut"
    /\ stopSnap # NoSnap
    /\ manager_
    /\ log["svc"] # <<>>

C5_WriteIffMaxDiffExceedsPrecision ==
    [][(pc["loop"] = "l_write" /\ pc'["loop"] = "l_pub")
        => LET diffs == {Abs(joint_commands_[i] - joint_angles_[i]) :
                            i \in 1..Len(joint_commands_)}
               largest == CHOOSE m \in diffs : \A d \in diffs : d <= m
               exceeds == diffs # {} /\ largest > joint_precision_
               sent == IF use_dcm_ THEN "dcm_write" ELSE "motion_write"
           IN IF exceeds
              THEN log'["loop"] = Append(log["loop"], sent)
              ELSE log'["loop"] = log["loop"]]_vars

\* C5's case: two joints, the first within the precision and the second
\* beyond it, and the vector was sent.
C5_Witness ==
    /\ pc["loop"] = "l_pub"
    /\ Len(joint_commands_) = 2
    /\ Abs(joint_commands_[1] - joint_angles_[1]) <= joint_precision_
    /\ Abs(joint_commands_[2] - joint_angles_[2]) > joint_precision_
    /\ CycleIO = <<"read", "update", "motion_write">>

\* C6: for every name list ignoreMimicJoints returns, and what it returns is
\* its input without the names that contain "Wheel" and, for body type "H21",
\* without RHand, LHand, RWristYaw and LWristYaw; every other name stays, in
\* its original order.
C6_FilterAndCompact ==
    [][(pc["svc"] = "c_filter" /\ pc'["svc"] # "c_filter")
        => LET kept(n) == ~(\/ ContainsWheel(n)
                            \/ (body_type_ = "H21"
                                /\ n \in {"RHand", "LHand", "RWristYaw", "LWristYaw"}))
           IN /\ pc'["svc"] = "c_init"
              /\ joints_names' = SelectSeq(raw_names, kept)]_vars

\* C7: when the batched sensor read returns a number of values different
\* from the number of controlled joints, readJoints writes nothing into the
\* measured-angle and command buffers.
C7_ReadFailsFastOnMismatch ==
    [][(/\ pc["loop"] = "l_read" /\ pc'["loop"] = "l_diag"
        /\ Len(joint_positions') # Len(joint_commands_))
        => UNCHANGED <<joint_angles_, joint_commands_>>]_vars

\* C8: after a connect() that returned success the four buffers have the
\* length of the filtered joint-name list, and no step of a cycle or of
\* stopService changes a buffer length (only initializeControllers does).
C8_BufferLengthsFixedAtConnect ==
    [][/\ connect_ret' = "true"
           => BufferLengths' = <<Len(joints_names'), Len(joints_names'),
                                 Len(joints_names'), Len(joints_names')>>
       /\ BufferLengths' # BufferLengths => pc["svc"] = "c_ctrl"]_vars

\* C8's case: two controlled joints, connect returned success and a cycle
\* has read, updated and written.
C8_Witness ==
    /\ connect_ret = "true"
    /\ Len(joints_names) = 2
    /\ BufferLengths = <<2, 2, 2, 2>>
    /\ pc["loop"] = "l_sleep"

\* C9: connect sets the connected flag only after, in this order, the wake
\* check passed, the joint set was resolved and filtered, init was called on
\* the wrappers, the topics were registered and the stiffness raise was
\* accepted; and no init call is made when the wake check fails.
C9_ConnectedOnlyAfterStiffnessRaise ==
    LET l == log["svc"]
    IN /\ "connected" \in Range(l)
           => /\ 0 < Pos(l, "awake")
              /\ Pos(l, "awake") < Pos(l, "names")
              /\ Pos(l, "names") < Pos(l, "filtered")
              /\ Pos(l, "filtered") < Pos(l, "init_memory")
              /\ Pos(l, "init_memory") < Pos(l, "init_motion")
              /\ Pos(l, "init_motion") < Pos(l, "topics")
              /\ Pos(l, "topics") < Pos(l, "stiff1_ok")
              /\ Pos(l, "stiff1_ok") < Pos(l, "connected")
       /\ "not_awake" \in Range(l)
           => Range(l) \cap {"init_memory", "init_motion", "init_dcm"} = {}

\* C10: in every iteration the read comes before the update and the update
\* before the write, each at most once, the read exactly once; an iteration
\* reads only after the one before it has passed its write step.
C10_CycleOrder ==
    /\ pc["loop"] \in {"idle", "l_check", "l_read"} => CycleIO = <<>>
    /\ pc["loop"] \in {"l_diag", "l_update", "crashed",
                       "s_arms", "s_rest", "s_stiff", "s_flag", "s_shut"}
           => CycleIO = <<"read">>
    /\ pc["loop"] = "l_write" => CycleIO = <<"read", "update">>
    /\ pc["loop"] \in {"l_pub", "l_sleep"}
           => CycleIO \in {<<"read", "update">>,
                           <<"read", "update", "dcm_write">>,
                           <<"read", "update", "motion_write">>}

\* C10's case: the second iteration in a row has read, updated and written.
C10_Witness ==
    /\ pc["loop"] = "l_sleep"
    /\ log["loop"] = <<"sleep", "publish_1", "read", "update", "dcm_write", "getAngles">>

\* C11: when manager_->update throws in a cycle, controllerLoop returns in
\* that cycle: the cycle has made no command write and no joint-state
\* publication, and no further iteration starts.
C11_UpdateFailureEndsLoop ==
    [][/\ loop_exit' = "update_failed"
           => (pc'["loop"] = "idle" /\ log'["loop"] = <<>>)
       /\ (loop_exit' = "update_failed" /\ loop_exit # "update_failed")
           => /\ pc["loop"] = "l_update"
              /\ Range(log["loop"])
                     \cap {"dcm_write", "motion_write", "getAngles"} = {}]_vars

\* C11's case: the update threw while the driver was connected and ROS was
\* up, so the loop would have gone on.
C11_Witness ==
    /\ loop_exit = "update_failed"
    /\ pc["loop"] = "idle"
    /\ is_connected_
    /\ ros_ok
    /\ manager_

StopEvents(t) == SelectSeq(log[t], LAMBDA e : e \in {"arms0", "rest", "stiff0"})

\* C13: with a motion backend stopService calls, in this order, arm
\* stiffness 0 (only with the low-level path), rest if and only if the
\* motor groups are exactly <<"Body">>, then stiffness 0 for the groups;
\* without a motion backend it makes no backend call; either way the
\* connected flag is cleared.
C13_StopServiceCallOrder ==
    \A t \in {"svc", "loop"} :
        pc[t] = "s_shut" =>
            /\ ~is_connected_
            /\ StopEvents(t) =
                  IF motion_
                  THEN (IF use_dcm_ THEN <<"arms0">> ELSE <<>>)
                       \o (IF motor_groups_ = <<"Body">> THEN <<"rest">> ELSE <<>>)
                       \o <<"stiff0">>
                  ELSE <<>>

\* C13's case: the low-level path with the whole body controlled.
C13_Witness ==
    /\ pc["svc"] = "s_shut"
    /\ log["svc"] = <<"arms0", "rest", "stiff0">>

\* C15: use_dcm_ changes only where connect loads the parameters, and every
\* command write goes to the DCM wrapper when use_dcm_ is set and to the
\* motion wrapper otherwise, one backend call per write.
C15_BackendPathFixed ==
    [][/\ use_dcm_' # use_dcm_ => (pc["svc"] = "idle" /\ pc'["svc"] = "c_wake")
       /\ (pc["loop"] = "l_write" /\ log'["loop"] # log["loop"])
           => log'["loop"] = Append(log["loop"],
                                    IF use_dcm_ THEN "dcm_write" ELSE "motion_write")]_vars

\* C15's case: a cycle of a connection on the low-level path has written,
\* while a velocity command is being handled.
C15_Witness ==
    /\ pc["loop"] = "l_pub"
    /\ use_dcm_
    /\ "dcm_write" \in Range(log["loop"])
    /\ pc["cb"] = "cb_raise"

\* C12: when diagnostics reports not-ok in a cycle, stopService runs and
\* controllerLoop eventually returns, without another full iteration.
C12_NotOkDiagnosticsEndsLoop ==
    ("diag_not_ok" \in Range(log["loop"])) ~> (pc["loop"] = "idle")

\* C14: after readJoints the measured angle and the command of every joint
\* are the angle the backend reported for that joint, and a cycle whose
\* update leaves every command at the measured angle makes no backend write,
\* whatever the configured precision.
C14_ReadSetsBothAndZeroDiffNoWrite ==
    [][/\ (pc["loop"] = "l_read" /\ pc'["loop"] = "l_diag")
           => \A i \in 1..Len(joint_commands_') :
                 /\ i <= Len(joint_positions')
                 /\ joint_angles_'[i] = joint_positions'[i]
                 /\ joint_commands_'[i] = joint_positions'[i]
       /\ (pc["loop"] = "l_write" /\ pc'["loop"] = "l_pub"
           /\ joint_commands_ = joint_angles_)
           => log'["loop"] = log["loop"]]_vars

\* C16: whenever the connected flag is true the controller manager has been
\* constructed and the four buffers have the length of the joint list.
C16_ConnectedHasManagerAndBuffers ==
    is_connected_ =>
        /\ manager_
        /\ BufferLengths = <<Len(joints_names), Len(joints_names),
                             Len(joints_names), Len(joints_names)>>

\* C17: no controller update and no joint command write is issued while the
\* connected flag is cleared, in particular not in the cycle in which a
\* not-ok diagnostics report made stopService run.
C17_NoUpdateOrWriteAfterStop ==
    [][(/\ pc["loop"] \in {"l_update", "l_write"}
        /\ Len(CycleIO') > Len(CycleIO))
        => is_connected_]_vars

C19_PublishedStiffnessIsAccepted ==
    [][(/\ pc["loop"] = "l_check" /\ pc'["loop"] = "l_read"
        /\ ~use_dcm_
        /\ CoversArms(motor_groups_))
        => stiffness_ = armStiffness]_vars

====
